---- MODULE Spec2Model ----
\* Model of src/src/motor/motor_pwm.c: complementary centre-aligned PWM for a
\* three-phase bridge (TIM4 = high side, TIM3 = low side), executed by one
\* foreground thread that an interrupt handler may preempt whenever PRIMASK is
\* clear.
EXTENDS Integers, Naturals, Sequences, FiniteSets, TLC

\* ---------------------------------------------------------------- constants

PWM_TIMER_FREQUENCY_MHZ == 72

PWM_MIN_PULSE_NANOSEC == 300

PWM_DEAD_TIME_NANOSEC == 400

PWM_TRUE_RESOLUTION == 10

MOTOR_PWM_DUTY_CYCLE_RESOLUTION == 16

MOTOR_PWM_DUTY_CYCLE_MAX == 65535

MOTOR_ADC_SYNC_ADVANCE_NANOSEC == 0

PWM_TOP ==
    (2 ^ PWM_TRUE_RESOLUTION) - 1

PWM_HALF_TOP ==
    (2 ^ PWM_TRUE_RESOLUTION) \div 2

\* Width of the 16-bit timer registers and of uint16_t.
U16 ==
    65536

Phases ==
    0 .. 2

\* Phase arguments a caller may pass to motor_pwm_manip (int): valid and invalid.
PhaseArgs ==
    (0 - 1) .. 3

Commands ==
    {"HIGH", "LOW", "FLOATING", "HALF"}

Timers ==
    {3, 4}

\* ---------------------------------------------------------------- state

VARIABLES
    ndebug,               \* build flag: assert() compiled out (assert_always is not)
    ccr_high,             \* TIM4->CCR1..3, by phase
    ccr_low,              \* TIM3->CCR2..4, by phase
    pol_high,             \* TIM4->CCER CC1P..CC3P, by phase
    pol_low,              \* TIM3->CCER CC2P..CC4P, by phase
    tim,                  \* per timer: CEN, ARR, CR1 mode, CCMR, CCER enables, UG done
    tim3_mms,             \* TIM3->CR2 MMS = "enable" (CNT_EN drives TRGO)
    tim4_smcr,            \* TIM4->SMCR programmed for trigger-mode slave of TIM3
    tim4_ccr4,            \* TIM4->CCR4, the ADC trigger compare
    primask,              \* TRUE: interrupts masked
    pwm_max,              \* _pwm_max
    pwm_dead_time_ticks,  \* _pwm_dead_time_ticks
    top,                  \* the public operation the foreground thread is in
    ipc,                  \* position inside motor_pwm_init
    fw_phase,             \* loop variable of motor_pwm_set_freewheeling, -1 when not in it
    mpc,                  \* position inside motor_pwm_manip / phase_set_i
    m_phase,              \* manip/phase_set_i argument: phase
    m_cmd,                \* manip argument: command
    pwm_val,              \* pwm_val.normalized_duty_cycle handed to phase_set_i
    inverted,             \* phase_set_i argument: inverted
    epc,                  \* position inside motor_pwm_emergency
    e_phase,              \* loop variable of motor_pwm_emergency
    irqstate,             \* irqstate saved by motor_pwm_emergency
    duty_cycle,           \* argument of motor_pwm_compute_pwm_val
    out_val,              \* out_val->normalized_duty_cycle, -1 while not written
    wr,                   \* the register write made by the last step, if any
    old,                  \* the phase's registers on entry to motor_pwm_manip
    init_done,            \* motor_pwm_init has returned at least once
    entry,                \* registers and mask on entry to the public operation in progress
    bpc,                  \* position inside motor_pwm_beep
    half_period,          \* half_period_hnsec of motor_pwm_beep, in time units
    end_time,             \* end_time of motor_pwm_beep; below zero: wrapped around 2^64
    now,                  \* motor_timer_hnsec() as motor_pwm_beep reads it, in time units
    duration_msec,        \* argument of motor_pwm_beep
    c_step,               \* the step argument of motor_pwm_set_step_from_isr
    isr_ran               \* an interrupt ran motor_pwm_emergency inside the operation in progress

regs ==
    <<ccr_high, ccr_low, pol_high, pol_low>>

timers ==
    <<tim, tim3_mms, tim4_smcr, tim4_ccr4>>

limits ==
    <<pwm_max, pwm_dead_time_ticks>>

manip_frame ==
    <<mpc, m_phase, m_cmd, pwm_val, inverted, old>>

emergency_frame ==
    <<epc, e_phase, irqstate>>

compute_frame ==
    <<duty_cycle, out_val>>

beep_frame ==
    <<bpc, half_period, end_time, now, duration_msec>>

vars ==
    <<ndebug, ccr_high, ccr_low, pol_high, pol_low, tim, tim3_mms, tim4_smcr,
      tim4_ccr4, primask, pwm_max, pwm_dead_time_ticks, top, ipc, fw_phase, mpc,
      m_phase, m_cmd, pwm_val, inverted, epc, e_phase, irqstate, duty_cycle,
      out_val, wr, old, init_done, entry, bpc, half_period, end_time, now,
      duration_msec, c_step, isr_ran>>

\* ---------------------------------------------------------------- helpers

NoWrite ==
    [op |-> "none", reg |-> "none", masked |-> TRUE]

Write(op, reg) ==
    [op |-> op, reg |-> reg, masked |-> primask]

NoOld ==
    <<FALSE, FALSE, 0, 0>>

NoEntry ==
    [ccr_high |-> [p \in 0 .. 2 |-> 0], ccr_low |-> [p \in 0 .. 2 |-> 0],
     pol_high |-> [p \in 0 .. 2 |-> FALSE], pol_low |-> [p \in 0 .. 2 |-> FALSE],
     primask |-> FALSE]

Entry ==
    [ccr_high |-> ccr_high, ccr_low |-> ccr_low, pol_high |-> pol_high,
     pol_low |-> pol_low, primask |-> primask]

PhaseRegs(p) ==
    <<pol_high[p], pol_low[p], ccr_high[p], ccr_low[p]>>

TimReset ==
    [cen |-> FALSE, arr |-> 0, center |-> FALSE, ocpe |-> FALSE, cce |-> FALSE,
     ug |-> FALSE]

AllZero ==
    [p \in Phases |-> 0]

AllClear ==
    [p \in Phases |-> FALSE]

\* Nanoseconds to timer ticks, truncated: (ns / 1e9) / (1 / f), cast to uint16_t.
TicksOf(nanosec) ==
    (nanosec * PWM_TIMER_FREQUENCY_MHZ) \div 1000

\* ticks_float < PWM_TOP * (percent / 100), on the untruncated product.
TicksBelow(nanosec, percent) ==
    nanosec * PWM_TIMER_FREQUENCY_MHZ * 100 < PWM_TOP * percent * 1000

\* ---------------------------------------------------------------- pure functions

\* Faulty variant of PwmMaxValue: the minimum pulse is not halved.
PwmMaxMutNotHalved ==
    PWM_TOP - (TicksOf(PWM_MIN_PULSE_NANOSEC) + 1)

\* motor_pwm_init, lines 199-202: _pwm_max from the minimum pulse.
PwmMaxValue ==
    PWM_TOP - ((TicksOf(PWM_MIN_PULSE_NANOSEC) \div 2) + 1)

\* motor_pwm_init, lines 205-211: _pwm_dead_time_ticks (not halved).
DeadTimeValue ==
    TicksOf(PWM_DEAD_TIME_NANOSEC)

\* Faulty variant of ComputePwmVal: the clamp to _pwm_max is missing.
ComputePwmValMutNoClamp(duty, max) ==
    LET corrected == duty \div (2 ^ (MOTOR_PWM_DUTY_CYCLE_RESOLUTION - PWM_TRUE_RESOLUTION))
    IN  (PWM_TOP - ((PWM_TOP - corrected) \div 2)) % U16

\* Faulty variant of ComputePwmVal: the mapping onto the upper half is missing.
ComputePwmValMutNoHalf(duty, max) ==
    LET corrected == duty \div (2 ^ (MOTOR_PWM_DUTY_CYCLE_RESOLUTION - PWM_TRUE_RESOLUTION))
        normalized == corrected % U16
    IN  IF normalized > max THEN max ELSE normalized

\* motor_pwm_compute_pwm_val, lines 316-324: the value left in
\* out_val->normalized_duty_cycle (uint16_t) for a duty code and a _pwm_max.
ComputePwmVal(duty, max) ==
    LET corrected == duty \div (2 ^ (MOTOR_PWM_DUTY_CYCLE_RESOLUTION - PWM_TRUE_RESOLUTION))
        normalized == (PWM_TOP - ((PWM_TOP - corrected) \div 2)) % U16
    IN  IF normalized > max THEN max ELSE normalized

\* motor_pwm_compute_pwm_val, lines 326-327: the two closing assertions.
ComputeAssertsHold(v) ==
    v >= PWM_HALF_TOP /\ v <= PWM_TOP

\* Faulty variant of DutyCycleHigh: the two branches of "inverted" exchanged.
DutyCycleHighMutSwapped(d, inv, dt) ==
    IF inv
    THEN (IF d > PWM_HALF_TOP THEN d - dt ELSE d) % U16
    ELSE (IF d > PWM_HALF_TOP THEN d ELSE d + dt) % U16

\* phase_set_i, lines 226-248: the value written to the high-side compare
\* register (uint_fast16_t arithmetic, stored in a 16-bit register).
DutyCycleHigh(d, inv, dt) ==
    IF inv
    THEN (IF d > PWM_HALF_TOP THEN d ELSE d + dt) % U16
    ELSE (IF d > PWM_HALF_TOP THEN d - dt ELSE d) % U16

\* Faulty variant of DutyCycleLow: no dead time on the low side.
DutyCycleLowMutNoDeadTime(d, inv, dt) ==
    d % U16

\* phase_set_i, lines 226-248: the value written to the low-side compare
\* register (uint_fast16_t arithmetic, stored in a 16-bit register).
DutyCycleLow(d, inv, dt) ==
    IF inv
    THEN (IF d > PWM_HALF_TOP THEN d - dt ELSE d) % U16
    ELSE (IF d > PWM_HALF_TOP THEN d ELSE d + dt) % U16

\* ---------------------------------------------------------------- initial state

\* Program start: statics zeroed, timers in their reset state, interrupts enabled.
Init ==
    /\ ndebug \in BOOLEAN
    /\ ccr_high = AllZero
    /\ ccr_low = AllZero
    /\ pol_high = AllClear
    /\ pol_low = AllClear
    /\ tim = [t \in Timers |-> TimReset]
    /\ tim3_mms = FALSE
    /\ tim4_smcr = FALSE
    /\ tim4_ccr4 = 0
    /\ primask = FALSE
    /\ pwm_max = 0
    /\ pwm_dead_time_ticks = 0
    /\ top = "idle"
    /\ ipc = "none"
    /\ fw_phase = 0 - 1
    /\ mpc = "none"
    /\ m_phase = 0
    /\ m_cmd = "FLOATING"
    /\ pwm_val = 0
    /\ inverted = FALSE
    /\ epc = "none"
    /\ e_phase = 0
    /\ irqstate = FALSE
    /\ duty_cycle = 0
    /\ out_val = 0 - 1
    /\ wr = NoWrite
    /\ old = NoOld
    /\ init_done = FALSE
    /\ entry = NoEntry
    /\ bpc = "none"
    /\ half_period = 0
    /\ end_time = 0
    /\ now = 0
    /\ duration_msec = 0
    /\ c_step = 0
    /\ isr_ran = FALSE

\* ---------------------------------------------------------------- motor_pwm_manip

ManipEnter(p, c) ==
    /\ mpc' = "m_check"
    /\ m_phase' = p
    /\ m_cmd' = c
    /\ old' = IF p \in Phases THEN PhaseRegs(p) ELSE NoOld
    /\ UNCHANGED <<pwm_val, inverted>>

ManipLeave ==
    /\ mpc' = "none"
    /\ m_phase' = 0
    /\ m_cmd' = "FLOATING"
    /\ pwm_val' = 0
    /\ inverted' = FALSE
    /\ old' = NoOld

\* A caller invokes motor_pwm_manip(phase, command).
CallManip(p, c) ==
    /\ top = "idle"
    /\ top' = "manip"
    /\ ManipEnter(p, c)
    /\ wr' = NoWrite
    /\ UNCHANGED <<ndebug, regs, timers, primask, limits, ipc, fw_phase,
                   emergency_frame, compute_frame, beep_frame, c_step, isr_ran,
                   init_done>>
    /\ entry' = Entry

\* Faulty variant of ManipBadPhase: the path unmasks interrupts before it ends.
ManipBadPhaseMutUnmask ==
    /\ top # "abort"
    /\ mpc = "m_check"
    /\ m_phase \notin Phases
    /\ IF ndebug
       THEN mpc' = "m_done" /\ top' = top
       ELSE mpc' = mpc /\ top' = "abort"
    /\ primask' = FALSE
    /\ wr' = NoWrite
    /\ UNCHANGED <<ndebug, regs, timers, limits, ipc, fw_phase, m_phase, m_cmd, pwm_val,
                   inverted, old, emergency_frame, compute_frame, beep_frame, c_step,
                   isr_ran, init_done, entry>>

\* Lines 256-259: phase outside 0..2: assert(0), then return.
ManipBadPhase ==
    /\ top # "abort"
    /\ mpc = "m_check"
    /\ m_phase \notin Phases
    /\ IF ndebug
       THEN mpc' = "m_done" /\ top' = top
       ELSE mpc' = mpc /\ top' = "abort"
    /\ wr' = NoWrite
    /\ UNCHANGED <<ndebug, regs, timers, primask, limits, ipc, fw_phase, m_phase, m_cmd,
                   pwm_val, inverted, old, emergency_frame, compute_frame, beep_frame,
                   c_step, isr_ran, init_done, entry>>

\* Lines 261, 271: choice of the branch.
ManipBranch ==
    /\ top # "abort"
    /\ mpc = "m_check"
    /\ m_phase \in Phases
    /\ mpc' = IF m_cmd \in {"HIGH", "HALF"} THEN "m_compute" ELSE "m_else_disable"
    /\ wr' = NoWrite
    /\ UNCHANGED <<ndebug, regs, timers, primask, limits, top, ipc, fw_phase, m_phase,
                   m_cmd, pwm_val, inverted, old, emergency_frame, compute_frame,
                   beep_frame, c_step, isr_ran, init_done, entry>>

\* Lines 264-266: motor_pwm_compute_pwm_val(duty_cycle, &pwm_val), assertions included.
ManipCompute ==
    /\ top # "abort"
    /\ mpc = "m_compute"
    /\ LET duty == IF m_cmd = "HIGH" THEN MOTOR_PWM_DUTY_CYCLE_MAX ELSE 0
           v == ComputePwmVal(duty, pwm_max)
       IN  /\ pwm_val' = v
           /\ IF ndebug \/ ComputeAssertsHold(v)
              THEN mpc' = "m_disable" /\ top' = top
              ELSE mpc' = mpc /\ top' = "abort"
    /\ wr' = NoWrite
    /\ UNCHANGED <<ndebug, regs, timers, primask, limits, ipc, fw_phase, m_phase, m_cmd,
                   inverted, old, emergency_frame, compute_frame, beep_frame, c_step,
                   isr_ran, init_done, entry>>

\* Line 268: irq_primask_disable(); line 269 passes inverted = false.
ManipDisable ==
    /\ top # "abort"
    /\ mpc = "m_disable"
    /\ primask' = TRUE
    /\ inverted' = FALSE
    /\ mpc' = "ps_pol_low"
    /\ wr' = NoWrite
    /\ UNCHANGED <<ndebug, regs, timers, limits, top, ipc, fw_phase, m_phase, m_cmd,
                   pwm_val, old, emergency_frame, compute_frame, beep_frame, c_step,
                   isr_ran, init_done, entry>>

\* phase_set_i, lines 231 / 241: TIM3->CCER polarity bit of the phase.
PhaseSetPolLow ==
    /\ top # "abort"
    /\ mpc = "ps_pol_low"
    /\ pol_low' = [pol_low EXCEPT ![m_phase] = ~inverted]
    /\ mpc' = "ps_pol_high"
    /\ wr' = Write("manip", "pol")
    /\ UNCHANGED <<ndebug, ccr_high, ccr_low, pol_high, timers, primask, limits, top,
                   ipc, fw_phase, m_phase, m_cmd, pwm_val, inverted, old,
                   emergency_frame, compute_frame, beep_frame, c_step, isr_ran,
                   init_done, entry>>

\* Faulty variant of PhaseSetPolHigh: the high-side polarity bit follows the
\* low-side one.
PhaseSetPolHighMutBoth ==
    /\ top # "abort"
    /\ mpc = "ps_pol_high"
    /\ pol_high' = [pol_high EXCEPT ![m_phase] = ~inverted]
    /\ mpc' = "ps_ccr_high"
    /\ wr' = Write("manip", "pol")
    /\ UNCHANGED <<ndebug, ccr_high, ccr_low, pol_low, timers, primask, limits, top,
                   ipc, fw_phase, m_phase, m_cmd, pwm_val, inverted, old,
                   emergency_frame, compute_frame, beep_frame, c_step, isr_ran,
                   init_done, entry>>

\* phase_set_i, lines 232 / 242: TIM4->CCER polarity bit of the phase.
PhaseSetPolHigh ==
    /\ top # "abort"
    /\ mpc = "ps_pol_high"
    /\ pol_high' = [pol_high EXCEPT ![m_phase] = inverted]
    /\ mpc' = "ps_ccr_high"
    /\ wr' = Write("manip", "pol")
    /\ UNCHANGED <<ndebug, ccr_high, ccr_low, pol_low, timers, primask, limits, top,
                   ipc, fw_phase, m_phase, m_cmd, pwm_val, inverted, old,
                   emergency_frame, compute_frame, beep_frame, c_step, isr_ran,
                   init_done, entry>>

\* phase_set_i, line 250: *PWM_REG_HIGH[phase] = duty_cycle_high.
PhaseSetCcrHigh ==
    /\ top # "abort"
    /\ mpc = "ps_ccr_high"
    /\ ccr_high' = [ccr_high EXCEPT
                      ![m_phase] = DutyCycleHigh(pwm_val, inverted, pwm_dead_time_ticks)]
    /\ mpc' = "ps_ccr_low"
    /\ wr' = Write("manip", "ccr")
    /\ UNCHANGED <<ndebug, ccr_low, pol_high, pol_low, timers, primask, limits, top,
                   ipc, fw_phase, m_phase, m_cmd, pwm_val, inverted, old,
                   emergency_frame, compute_frame, beep_frame, c_step, isr_ran,
                   init_done, entry>>

\* Faulty variant of PhaseSetCcrLow: the register of the next phase is written.
PhaseSetCcrLowMutWrongPhase ==
    /\ top # "abort"
    /\ mpc = "ps_ccr_low"
    /\ ccr_low' = [ccr_low EXCEPT
                     ![(m_phase + 1) % 3] =
                         DutyCycleLow(pwm_val, inverted, pwm_dead_time_ticks)]
    /\ mpc' = "m_enable"
    /\ wr' = Write("manip", "ccr")
    /\ UNCHANGED <<ndebug, ccr_high, pol_high, pol_low, timers, primask, limits, top,
                   ipc, fw_phase, m_phase, m_cmd, pwm_val, inverted, old,
                   emergency_frame, compute_frame, beep_frame, c_step, isr_ran,
                   init_done, entry>>

\* phase_set_i, line 251: *PWM_REG_LOW[phase] = duty_cycle_low; phase_set_i returns.
PhaseSetCcrLow ==
    /\ top # "abort"
    /\ mpc = "ps_ccr_low"
    /\ ccr_low' = [ccr_low EXCEPT
                     ![m_phase] = DutyCycleLow(pwm_val, inverted, pwm_dead_time_ticks)]
    /\ mpc' = "m_enable"
    /\ wr' = Write("manip", "ccr")
    /\ UNCHANGED <<ndebug, ccr_high, pol_high, pol_low, timers, primask, limits, top,
                   ipc, fw_phase, m_phase, m_cmd, pwm_val, inverted, old,
                   emergency_frame, compute_frame, beep_frame, c_step, isr_ran,
                   init_done, entry>>

\* Line 270: irq_primask_enable(); the function returns.
ManipEnable ==
    /\ top # "abort"
    /\ mpc = "m_enable"
    /\ primask' = FALSE
    /\ mpc' = "m_done"
    /\ wr' = NoWrite
    /\ UNCHANGED <<ndebug, regs, timers, limits, top, ipc, fw_phase, m_phase, m_cmd,
                   pwm_val, inverted, old, emergency_frame, compute_frame, beep_frame,
                   c_step, isr_ran, init_done, entry>>

\* Line 274: irq_primask_disable().
ManipElseDisable ==
    /\ top # "abort"
    /\ mpc = "m_else_disable"
    /\ primask' = TRUE
    /\ mpc' = "m_else_pol_low"
    /\ wr' = NoWrite
    /\ UNCHANGED <<ndebug, regs, timers, limits, top, ipc, fw_phase, m_phase, m_cmd,
                   pwm_val, inverted, old, emergency_frame, compute_frame, beep_frame,
                   c_step, isr_ran, init_done, entry>>

\* Faulty variant of ManipElsePolLow: the low-side inversion is left as it was.
ManipElsePolLowMutSkip ==
    /\ top # "abort"
    /\ mpc = "m_else_pol_low"
    /\ mpc' = "m_else_pol_high"
    /\ wr' = NoWrite
    /\ UNCHANGED <<ndebug, ccr_high, ccr_low, pol_high, pol_low, timers, primask,
                   limits, top, ipc, fw_phase, m_phase, m_cmd, pwm_val, inverted, old,
                   emergency_frame, compute_frame, beep_frame, c_step, isr_ran,
                   init_done, entry>>

\* Line 275: TIM3->CCER &= ~TIM3_LOW_CCER_POL[phase].
ManipElsePolLow ==
    /\ top # "abort"
    /\ mpc = "m_else_pol_low"
    /\ pol_low' = [pol_low EXCEPT ![m_phase] = FALSE]
    /\ mpc' = "m_else_pol_high"
    /\ wr' = Write("manip", "pol")
    /\ UNCHANGED <<ndebug, ccr_high, ccr_low, pol_high, timers, primask, limits, top,
                   ipc, fw_phase, m_phase, m_cmd, pwm_val, inverted, old,
                   emergency_frame, compute_frame, beep_frame, c_step, isr_ran,
                   init_done, entry>>

\* Line 276: TIM4->CCER &= ~TIM4_HIGH_CCER_POL[phase].
ManipElsePolHigh ==
    /\ top # "abort"
    /\ mpc = "m_else_pol_high"
    /\ pol_high' = [pol_high EXCEPT ![m_phase] = FALSE]
    /\ mpc' = "m_else_enable"
    /\ wr' = Write("manip", "pol")
    /\ UNCHANGED <<ndebug, ccr_high, ccr_low, pol_low, timers, primask, limits, top,
                   ipc, fw_phase, m_phase, m_cmd, pwm_val, inverted, old,
                   emergency_frame, compute_frame, beep_frame, c_step, isr_ran,
                   init_done, entry>>

\* Line 277: irq_primask_enable().
ManipElseEnable ==
    /\ top # "abort"
    /\ mpc = "m_else_enable"
    /\ primask' = FALSE
    /\ mpc' = "m_else_ccr_high"
    /\ wr' = NoWrite
    /\ UNCHANGED <<ndebug, regs, timers, limits, top, ipc, fw_phase, m_phase, m_cmd,
                   pwm_val, inverted, old, emergency_frame, compute_frame, beep_frame,
                   c_step, isr_ran, init_done, entry>>

\* Line 280: *PWM_REG_HIGH[phase] = 0.
ManipElseCcrHigh ==
    /\ top # "abort"
    /\ mpc = "m_else_ccr_high"
    /\ ccr_high' = [ccr_high EXCEPT ![m_phase] = 0]
    /\ mpc' = "m_else_ccr_low"
    /\ wr' = Write("manip", "ccr")
    /\ UNCHANGED <<ndebug, ccr_low, pol_high, pol_low, timers, primask, limits, top,
                   ipc, fw_phase, m_phase, m_cmd, pwm_val, inverted, old,
                   emergency_frame, compute_frame, beep_frame, c_step, isr_ran,
                   init_done, entry>>

\* Faulty variant of ManipElseLowValue: the two stores exchanged.
ManipElseLowValueMutSwapped(c) ==
    IF c = "LOW" THEN 0 ELSE PWM_TOP

\* Lines 282-285: the value stored in the low-side compare register.
ManipElseLowValue(c) ==
    IF c = "LOW" THEN PWM_TOP ELSE 0

\* Lines 282-285: *PWM_REG_LOW[phase] = PWM_TOP or 0; the function returns.
ManipElseCcrLow ==
    /\ top # "abort"
    /\ mpc = "m_else_ccr_low"
    /\ ccr_low' = [ccr_low EXCEPT ![m_phase] = ManipElseLowValue(m_cmd)]
    /\ mpc' = "m_done"
    /\ wr' = Write("manip", "ccr")
    /\ UNCHANGED <<ndebug, ccr_high, pol_high, pol_low, timers, primask, limits, top,
                   ipc, fw_phase, m_phase, m_cmd, pwm_val, inverted, old,
                   emergency_frame, compute_frame, beep_frame, c_step, isr_ran,
                   init_done, entry>>

\* motor_pwm_manip returns to an outside caller.
ManipReturn ==
    /\ top = "manip"
    /\ mpc = "m_done"
    /\ top' = "idle"
    /\ ManipLeave
    /\ wr' = NoWrite
    /\ UNCHANGED <<ndebug, regs, timers, primask, limits, ipc, fw_phase,
                   emergency_frame, compute_frame, beep_frame, c_step, init_done>>
    /\ entry' = NoEntry
    /\ isr_ran' = FALSE

\* ---------------------------------------------------------------- motor_pwm_set_freewheeling

\* A caller invokes motor_pwm_set_freewheeling().
CallFreewheeling ==
    /\ top = "idle"
    /\ top' = "freewheeling"
    /\ fw_phase' = 0
    /\ wr' = NoWrite
    /\ UNCHANGED <<ndebug, regs, timers, primask, limits, ipc, manip_frame,
                   emergency_frame, compute_frame, beep_frame, c_step, isr_ran,
                   init_done>>
    /\ entry' = Entry

\* Lines 291-292: the loop body calls motor_pwm_manip(phase, MOTOR_PWM_MANIP_FLOATING).
FreewheelingLoop ==
    /\ top \in {"freewheeling", "init", "beep"}
    /\ fw_phase \in Phases
    /\ mpc = "none"
    /\ ManipEnter(fw_phase, "FLOATING")
    /\ wr' = NoWrite
    /\ UNCHANGED <<ndebug, regs, timers, primask, limits, top, ipc, fw_phase,
                   emergency_frame, compute_frame, beep_frame, c_step, isr_ran,
                   init_done, entry>>

\* Faulty variant of FreewheelingNext: the loop steps over phase 1.
FreewheelingNextMutSkip ==
    /\ top \in {"freewheeling", "init", "beep"}
    /\ fw_phase \in Phases
    /\ mpc = "m_done"
    /\ fw_phase' = IF fw_phase = 0 THEN 2 ELSE fw_phase + 1
    /\ ManipLeave
    /\ wr' = NoWrite
    /\ UNCHANGED <<ndebug, regs, timers, primask, limits, top, ipc, emergency_frame,
                   compute_frame, beep_frame, c_step, isr_ran, init_done, entry>>

\* Line 291: motor_pwm_manip has returned into the loop; phase++.
FreewheelingNext ==
    /\ top \in {"freewheeling", "init", "beep"}
    /\ fw_phase \in Phases
    /\ mpc = "m_done"
    /\ fw_phase' = fw_phase + 1
    /\ ManipLeave
    /\ wr' = NoWrite
    /\ UNCHANGED <<ndebug, regs, timers, primask, limits, top, ipc, emergency_frame,
                   compute_frame, beep_frame, c_step, isr_ran, init_done, entry>>

\* Line 293: the loop has ended; return to the caller (outside, or motor_pwm_init).
FreewheelingReturn ==
    /\ top \in {"freewheeling", "init", "beep"}
    /\ fw_phase = 3
    /\ fw_phase' = 0 - 1
    /\ top' = IF top = "freewheeling" THEN "idle" ELSE top
    /\ ipc' = IF top = "init" THEN "i_done" ELSE ipc
    /\ bpc' = CASE top = "beep" /\ bpc = "b_in_fw1" -> "b_low"
              [] top = "beep" /\ bpc = "b_in_fw2" -> "b_done"
              [] OTHER -> bpc
    /\ wr' = NoWrite
    /\ UNCHANGED <<ndebug, regs, timers, primask, limits, manip_frame, emergency_frame,
                   compute_frame, half_period, end_time, now, duration_msec, c_step,
                   init_done>>
    /\ entry' = IF top = "freewheeling" THEN NoEntry ELSE entry
    /\ isr_ran' = IF top = "freewheeling" THEN FALSE ELSE isr_ran

\* ---------------------------------------------------------------- motor_pwm_emergency

\* A caller invokes motor_pwm_emergency() from the foreground thread.
CallEmergency ==
    /\ top = "idle"
    /\ top' = "emergency"
    /\ epc' = "e_save"
    /\ wr' = NoWrite
    /\ UNCHANGED <<ndebug, regs, timers, primask, limits, ipc, fw_phase, manip_frame,
                   e_phase, irqstate, compute_frame, beep_frame, c_step, isr_ran,
                   init_done>>
    /\ entry' = Entry

\* Line 297: irqstate = irq_primask_save(): remember the mask, then mask.
EmergencySave ==
    /\ top = "emergency"
    /\ epc = "e_save"
    /\ irqstate' = primask
    /\ primask' = TRUE
    /\ e_phase' = 0
    /\ epc' = "e_pol_low"
    /\ wr' = NoWrite
    /\ UNCHANGED <<ndebug, regs, timers, limits, top, ipc, fw_phase, manip_frame,
                   compute_frame, beep_frame, c_step, isr_ran, init_done, entry>>

\* Line 301: TIM3->CCER &= ~TIM3_LOW_CCER_POL[phase].
EmergencyPolLow ==
    /\ top = "emergency"
    /\ epc = "e_pol_low"
    /\ pol_low' = [pol_low EXCEPT ![e_phase] = FALSE]
    /\ epc' = "e_pol_high"
    /\ wr' = Write("emergency", "pol")
    /\ UNCHANGED <<ndebug, ccr_high, ccr_low, pol_high, timers, primask, limits, top,
                   ipc, fw_phase, manip_frame, e_phase, irqstate, compute_frame,
                   beep_frame, c_step, isr_ran, init_done, entry>>

\* Line 302: TIM4->CCER &= ~TIM4_HIGH_CCER_POL[phase].
EmergencyPolHigh ==
    /\ top = "emergency"
    /\ epc = "e_pol_high"
    /\ pol_high' = [pol_high EXCEPT ![e_phase] = FALSE]
    /\ epc' = "e_ccr_high"
    /\ wr' = Write("emergency", "pol")
    /\ UNCHANGED <<ndebug, ccr_high, ccr_low, pol_low, timers, primask, limits, top,
                   ipc, fw_phase, manip_frame, e_phase, irqstate, compute_frame,
                   beep_frame, c_step, isr_ran, init_done, entry>>

\* Line 304: *PWM_REG_HIGH[phase] = 0.
EmergencyCcrHigh ==
    /\ top = "emergency"
    /\ epc = "e_ccr_high"
    /\ ccr_high' = [ccr_high EXCEPT ![e_phase] = 0]
    /\ epc' = "e_ccr_low"
    /\ wr' = Write("emergency", "ccr")
    /\ UNCHANGED <<ndebug, ccr_low, pol_high, pol_low, timers, primask, limits, top,
                   ipc, fw_phase, manip_frame, e_phase, irqstate, compute_frame,
                   beep_frame, c_step, isr_ran, init_done, entry>>

\* Faulty variant of EmergencyLoopTest: the loop stops one phase early.
EmergencyLoopTestMutShort(phase) ==
    phase < 2

\* Line 299: the loop test of motor_pwm_emergency, phase < 3.
EmergencyLoopTest(phase) ==
    phase < 3

\* Line 305: *PWM_REG_LOW[phase] = 0; line 299: phase++ and the loop test.
EmergencyCcrLow ==
    /\ top = "emergency"
    /\ epc = "e_ccr_low"
    /\ ccr_low' = [ccr_low EXCEPT ![e_phase] = 0]
    /\ e_phase' = e_phase + 1
    /\ epc' = IF EmergencyLoopTest(e_phase + 1) THEN "e_pol_low" ELSE "e_restore"
    /\ wr' = Write("emergency", "ccr")
    /\ UNCHANGED <<ndebug, ccr_high, pol_high, pol_low, timers, primask, limits, top,
                   ipc, fw_phase, manip_frame, irqstate, compute_frame, beep_frame,
                   c_step, isr_ran, init_done, entry>>

\* Faulty variant of EmergencyRestore: interrupts are unmasked unconditionally.
EmergencyRestoreMutEnable ==
    /\ top = "emergency"
    /\ epc = "e_restore"
    /\ primask' = FALSE
    /\ epc' = "e_done"
    /\ wr' = NoWrite
    /\ UNCHANGED <<ndebug, regs, timers, limits, top, ipc, fw_phase, manip_frame,
                   e_phase, irqstate, compute_frame, beep_frame, c_step, isr_ran,
                   init_done, entry>>

\* Line 308: irq_primask_restore(irqstate); the function returns.
EmergencyRestore ==
    /\ top = "emergency"
    /\ epc = "e_restore"
    /\ primask' = irqstate
    /\ epc' = "e_done"
    /\ wr' = NoWrite
    /\ UNCHANGED <<ndebug, regs, timers, limits, top, ipc, fw_phase, manip_frame,
                   e_phase, irqstate, compute_frame, beep_frame, c_step, isr_ran,
                   init_done, entry>>

\* motor_pwm_emergency returns to the foreground caller.
EmergencyReturn ==
    /\ top = "emergency"
    /\ epc = "e_done"
    /\ top' = "idle"
    /\ epc' = "none"
    /\ e_phase' = 0
    /\ irqstate' = FALSE
    /\ wr' = NoWrite
    /\ UNCHANGED <<ndebug, regs, timers, primask, limits, ipc, fw_phase, manip_frame,
                   compute_frame, beep_frame, c_step, init_done>>
    /\ entry' = NoEntry
    /\ isr_ran' = FALSE

\* The foreground thread stands at an instruction of the program (not at one of the
\* model's return points, which follow the last instruction without a gap).
AtInstruction ==
    /\ top # "abort"
    /\ mpc # "m_done"
    /\ epc # "e_done"
    /\ ipc # "i_done"
    /\ fw_phase # 3
    /\ bpc # "b_done"
    /\ ~(top = "compute" /\ out_val # 0 - 1)

\* Faulty variant of IsrEmergency: the low-side compare of phase 2 is not zeroed.
IsrEmergencyMutPartial ==
    /\ AtInstruction
    /\ primask = FALSE
    /\ pol_low' = AllClear
    /\ pol_high' = AllClear
    /\ ccr_high' = AllZero
    /\ ccr_low' = [AllZero EXCEPT ![2] = ccr_low[2]]
    /\ isr_ran' = (isr_ran \/ top # "idle")
    /\ wr' = NoWrite
    /\ UNCHANGED <<ndebug, timers, primask, limits, top, ipc, fw_phase, manip_frame,
                   emergency_frame, compute_frame, beep_frame, c_step, init_done,
                   entry>>

\* An interrupt handler preempts the foreground thread and runs the whole of
\* motor_pwm_emergency (lines 297-308) before the thread resumes: save and mask,
\* clear and zero all three phases, restore the mask it found (clear).
IsrEmergency ==
    /\ AtInstruction
    /\ primask = FALSE
    /\ pol_low' = AllClear
    /\ pol_high' = AllClear
    /\ ccr_high' = AllZero
    /\ ccr_low' = AllZero
    /\ isr_ran' = (isr_ran \/ top # "idle")
    /\ wr' = NoWrite
    /\ UNCHANGED <<ndebug, timers, primask, limits, top, ipc, fw_phase, manip_frame,
                   emergency_frame, compute_frame, beep_frame, c_step, init_done,
                   entry>>

\* ---------------------------------------------------------------- the caller's critical sections

\* The caller masks interrupts before calling into the module (irq_primask_disable).
CallerIrqDisable ==
    /\ top = "idle"
    /\ primask = FALSE
    /\ primask' = TRUE
    /\ wr' = NoWrite
    /\ UNCHANGED <<ndebug, regs, timers, limits, top, ipc, fw_phase, manip_frame,
                   emergency_frame, compute_frame, beep_frame, c_step, isr_ran,
                   init_done, entry>>

\* The caller unmasks interrupts (irq_primask_enable).
CallerIrqEnable ==
    /\ top = "idle"
    /\ primask = TRUE
    /\ primask' = FALSE
    /\ wr' = NoWrite
    /\ UNCHANGED <<ndebug, regs, timers, limits, top, ipc, fw_phase, manip_frame,
                   emergency_frame, compute_frame, beep_frame, c_step, isr_ran,
                   init_done, entry>>

\* ---------------------------------------------------------------- motor_pwm_init

InitStep(from, to) ==
    /\ top = "init"
    /\ ipc = from
    /\ ipc' = to

\* A caller invokes motor_pwm_init() (first run or re-run).
CallInit ==
    /\ top = "idle"
    /\ top' = "init"
    /\ ipc' = "i_sys_disable"
    /\ wr' = NoWrite
    /\ UNCHANGED <<ndebug, regs, timers, primask, limits, fw_phase, manip_frame,
                   emergency_frame, compute_frame, beep_frame, c_step, isr_ran,
                   init_done>>
    /\ entry' = Entry

\* init_timers, line 124: chSysDisable().
InitSysDisable ==
    /\ InitStep("i_sys_disable", "i_rcc")
    /\ primask' = TRUE
    /\ wr' = NoWrite
    /\ UNCHANGED <<ndebug, regs, timers, limits, top, fw_phase, manip_frame,
                   emergency_frame, compute_frame, beep_frame, c_step, isr_ran,
                   init_done, entry>>

\* init_timers, lines 127-131: clock enable and peripheral reset of TIM3 and TIM4;
\* the reset puts every register of both timers back to zero.
InitRccReset ==
    /\ InitStep("i_rcc", "i_sys_enable")
    /\ ccr_high' = AllZero
    /\ ccr_low' = AllZero
    /\ pol_high' = AllClear
    /\ pol_low' = AllClear
    /\ tim' = [t \in Timers |-> TimReset]
    /\ tim3_mms' = FALSE
    /\ tim4_smcr' = FALSE
    /\ tim4_ccr4' = 0
    /\ wr' = Write("init", "reset")
    /\ UNCHANGED <<ndebug, primask, limits, top, fw_phase, manip_frame, emergency_frame,
                   compute_frame, beep_frame, c_step, isr_ran, init_done, entry>>

\* init_timers, line 133: chSysEnable().
InitSysEnable ==
    /\ InitStep("i_sys_enable", "i_arr")
    /\ primask' = FALSE
    /\ wr' = NoWrite
    /\ UNCHANGED <<ndebug, regs, timers, limits, top, fw_phase, manip_frame,
                   emergency_frame, compute_frame, beep_frame, c_step, isr_ran,
                   init_done, entry>>

\* init_timers, line 136: TIM3->ARR = TIM4->ARR = PWM_TOP.
InitArr ==
    /\ InitStep("i_arr", "i_cr1")
    /\ tim' = [t \in Timers |-> [tim[t] EXCEPT !.arr = PWM_TOP]]
    /\ wr' = NoWrite
    /\ UNCHANGED <<ndebug, regs, tim3_mms, tim4_smcr, tim4_ccr4, primask, limits, top,
                   fw_phase, manip_frame, emergency_frame, compute_frame, beep_frame,
                   c_step, isr_ran, init_done, entry>>

\* init_timers, line 139: CR1 = ARPE | CMS_0 (centre-aligned, CEN clear).
InitCr1 ==
    /\ InitStep("i_cr1", "i_ccmr")
    /\ tim' = [t \in Timers |-> [tim[t] EXCEPT !.center = TRUE, !.cen = FALSE]]
    /\ wr' = NoWrite
    /\ UNCHANGED <<ndebug, regs, tim3_mms, tim4_smcr, tim4_ccr4, primask, limits, top,
                   fw_phase, manip_frame, emergency_frame, compute_frame, beep_frame,
                   c_step, isr_ran, init_done, entry>>

\* init_timers, lines 142-148: CCMR1, CCMR2: PWM mode with preload on every channel.
InitCcmr ==
    /\ InitStep("i_ccmr", "i_ccer")
    /\ tim' = [t \in Timers |-> [tim[t] EXCEPT !.ocpe = TRUE]]
    /\ wr' = NoWrite
    /\ UNCHANGED <<ndebug, regs, tim3_mms, tim4_smcr, tim4_ccr4, primask, limits, top,
                   fw_phase, manip_frame, emergency_frame, compute_frame, beep_frame,
                   c_step, isr_ran, init_done, entry>>

\* init_timers, line 151: CCER = CC1E..CC4E: channels enabled, no polarity bit set.
InitCcer ==
    /\ InitStep("i_ccer", "i_adc")
    /\ tim' = [t \in Timers |-> [tim[t] EXCEPT !.cce = TRUE]]
    /\ pol_high' = AllClear
    /\ pol_low' = AllClear
    /\ wr' = Write("init", "pol")
    /\ UNCHANGED <<ndebug, ccr_high, ccr_low, tim3_mms, tim4_smcr, tim4_ccr4, primask,
                   limits, top, fw_phase, manip_frame, emergency_frame, compute_frame,
                   beep_frame, c_step, isr_ran, init_done, entry>>

\* init_timers, lines 154-159: the ADC trigger advance, its two assert_always, and
\* TIM4->CCR4 = PWM_HALF_TOP - ticks.
InitAdcTrigger ==
    /\ top = "init"
    /\ ipc = "i_adc"
    /\ IF TicksOf(MOTOR_ADC_SYNC_ADVANCE_NANOSEC) >= 0
          /\ TicksBelow(MOTOR_ADC_SYNC_ADVANCE_NANOSEC, 30)
       THEN /\ tim4_ccr4' = (PWM_HALF_TOP - TicksOf(MOTOR_ADC_SYNC_ADVANCE_NANOSEC)) % U16
            /\ ipc' = "i_egr"
            /\ top' = top
       ELSE /\ tim4_ccr4' = tim4_ccr4
            /\ ipc' = ipc
            /\ top' = "abort"
    /\ wr' = NoWrite
    /\ UNCHANGED <<ndebug, regs, tim, tim3_mms, tim4_smcr, primask, limits, fw_phase,
                   manip_frame, emergency_frame, compute_frame, beep_frame, c_step,
                   isr_ran, init_done, entry>>

\* init_timers, lines 162-163: EGR = UG on both timers.
InitEgr ==
    /\ InitStep("i_egr", "s_assert_stopped")
    /\ tim' = [t \in Timers |-> [tim[t] EXCEPT !.ug = TRUE]]
    /\ wr' = NoWrite
    /\ UNCHANGED <<ndebug, regs, tim3_mms, tim4_smcr, tim4_ccr4, primask, limits, top,
                   fw_phase, manip_frame, emergency_frame, compute_frame, beep_frame,
                   c_step, isr_ran, init_done, entry>>

\* start_timers, lines 169-170: assert_always that neither timer is counting.
StartAssertStopped ==
    /\ top = "init"
    /\ ipc = "s_assert_stopped"
    /\ IF ~tim[3].cen /\ ~tim[4].cen
       THEN ipc' = "s_master" /\ top' = top
       ELSE ipc' = ipc /\ top' = "abort"
    /\ wr' = NoWrite
    /\ UNCHANGED <<ndebug, regs, timers, primask, limits, fw_phase, manip_frame,
                   emergency_frame, compute_frame, beep_frame, c_step, isr_ran,
                   init_done, entry>>

\* start_timers, line 173: TIM3->CR2 |= TIM_CR2_MMS_0 (TIM3 is master).
StartMaster ==
    /\ InitStep("s_master", "s_slave")
    /\ tim3_mms' = TRUE
    /\ wr' = NoWrite
    /\ UNCHANGED <<ndebug, regs, tim, tim4_smcr, tim4_ccr4, primask, limits, top,
                   fw_phase, manip_frame, emergency_frame, compute_frame, beep_frame,
                   c_step, isr_ran, init_done, entry>>

\* Faulty variant of StartSlave: TIM4 is not put into trigger mode.
StartSlaveMutSkip ==
    /\ InitStep("s_slave", "s_start")
    /\ tim4_smcr' = FALSE
    /\ wr' = NoWrite
    /\ UNCHANGED <<ndebug, regs, tim, tim3_mms, tim4_ccr4, primask, limits, top,
                   fw_phase, manip_frame, emergency_frame, compute_frame, beep_frame,
                   c_step, isr_ran, init_done, entry>>

\* start_timers, line 174: TIM4->SMCR = trigger mode on TIM3's TRGO (TIM4 is slave).
StartSlave ==
    /\ InitStep("s_slave", "s_start")
    /\ tim4_smcr' = TRUE
    /\ wr' = NoWrite
    /\ UNCHANGED <<ndebug, regs, tim, tim3_mms, tim4_ccr4, primask, limits, top,
                   fw_phase, manip_frame, emergency_frame, compute_frame, beep_frame,
                   c_step, isr_ran, init_done, entry>>

\* start_timers, line 176: TIM3->CR1 |= TIM_CR1_CEN; a slave in trigger mode is
\* started by the master's enable edge in the same instant.
StartCounters ==
    /\ InitStep("s_start", "s_unsync_master")
    /\ tim' = [tim EXCEPT ![3].cen = TRUE,
                          ![4].cen = tim[4].cen \/ (tim3_mms /\ tim4_smcr)]
    /\ wr' = NoWrite
    /\ UNCHANGED <<ndebug, regs, tim3_mms, tim4_smcr, tim4_ccr4, primask, limits, top,
                   fw_phase, manip_frame, emergency_frame, compute_frame, beep_frame,
                   c_step, isr_ran, init_done, entry>>

\* start_timers, line 179: TIM3->CR2 &= ~TIM_CR2_MMS.
StartUnsyncMaster ==
    /\ InitStep("s_unsync_master", "s_unsync_slave")
    /\ tim3_mms' = FALSE
    /\ wr' = NoWrite
    /\ UNCHANGED <<ndebug, regs, tim, tim4_smcr, tim4_ccr4, primask, limits, top,
                   fw_phase, manip_frame, emergency_frame, compute_frame, beep_frame,
                   c_step, isr_ran, init_done, entry>>

\* start_timers, line 180: TIM4->SMCR = 0.
StartUnsyncSlave ==
    /\ InitStep("s_unsync_slave", "s_assert_running")
    /\ tim4_smcr' = FALSE
    /\ wr' = NoWrite
    /\ UNCHANGED <<ndebug, regs, tim, tim3_mms, tim4_ccr4, primask, limits, top,
                   fw_phase, manip_frame, emergency_frame, compute_frame, beep_frame,
                   c_step, isr_ran, init_done, entry>>

\* start_timers, lines 183-184: assert_always that both timers are counting.
StartAssertRunning ==
    /\ top = "init"
    /\ ipc = "s_assert_running"
    /\ IF tim[3].cen /\ tim[4].cen
       THEN ipc' = "i_pwm_max" /\ top' = top
       ELSE ipc' = ipc /\ top' = "abort"
    /\ wr' = NoWrite
    /\ UNCHANGED <<ndebug, regs, timers, primask, limits, fw_phase, manip_frame,
                   emergency_frame, compute_frame, beep_frame, c_step, isr_ran,
                   init_done, entry>>

\* motor_pwm_init, lines 193-202: minimum pulse, its two assert_always, _pwm_max.
InitPwmMax ==
    /\ top = "init"
    /\ ipc = "i_pwm_max"
    /\ IF TicksOf(PWM_MIN_PULSE_NANOSEC) >= 0 /\ TicksBelow(PWM_MIN_PULSE_NANOSEC, 5)
       THEN pwm_max' = PwmMaxValue % U16 /\ ipc' = "i_dead_time" /\ top' = top
       ELSE pwm_max' = pwm_max /\ ipc' = ipc /\ top' = "abort"
    /\ wr' = NoWrite
    /\ UNCHANGED <<ndebug, regs, timers, primask, pwm_dead_time_ticks, fw_phase,
                   manip_frame, emergency_frame, compute_frame, beep_frame, c_step,
                   isr_ran, init_done, entry>>

\* motor_pwm_init, lines 205-211: dead time, its two assert_always,
\* _pwm_dead_time_ticks.
InitDeadTime ==
    /\ top = "init"
    /\ ipc = "i_dead_time"
    /\ IF TicksOf(PWM_DEAD_TIME_NANOSEC) >= 0 /\ TicksBelow(PWM_DEAD_TIME_NANOSEC, 5)
       THEN /\ pwm_dead_time_ticks' = DeadTimeValue % U16
            /\ ipc' = "i_freewheeling"
            /\ top' = top
       ELSE /\ pwm_dead_time_ticks' = pwm_dead_time_ticks
            /\ ipc' = ipc
            /\ top' = "abort"
    /\ wr' = NoWrite
    /\ UNCHANGED <<ndebug, regs, timers, primask, pwm_max, fw_phase, manip_frame,
                   emergency_frame, compute_frame, beep_frame, c_step, isr_ran,
                   init_done, entry>>

\* motor_pwm_init, line 217: motor_pwm_set_freewheeling() is called.
InitFreewheeling ==
    /\ InitStep("i_freewheeling", "i_in_freewheeling")
    /\ fw_phase' = 0
    /\ wr' = NoWrite
    /\ UNCHANGED <<ndebug, regs, timers, primask, limits, top, manip_frame,
                   emergency_frame, compute_frame, beep_frame, c_step, isr_ran,
                   init_done, entry>>

\* motor_pwm_init, line 218: return.
InitReturn ==
    /\ top = "init"
    /\ ipc = "i_done"
    /\ top' = "idle"
    /\ ipc' = "none"
    /\ init_done' = TRUE
    /\ entry' = NoEntry
    /\ wr' = NoWrite
    /\ UNCHANGED <<ndebug, regs, timers, primask, limits, fw_phase, manip_frame,
                   emergency_frame, compute_frame, beep_frame, c_step>>
    /\ isr_ran' = FALSE

\* ---------------------------------------------------------------- motor_pwm_compute_pwm_val

\* The duty codes a caller passes in the specification of the whole driver:
\* zero, mid-scale and full scale (SpecCompute passes every code).
DutySamples ==
    {0, (MOTOR_PWM_DUTY_CYCLE_MAX + 1) \div 2, MOTOR_PWM_DUTY_CYCLE_MAX}

\* A caller invokes motor_pwm_compute_pwm_val(duty, out_val).
CallCompute(duty) ==
    /\ top = "idle"
    /\ top' = "compute"
    /\ duty_cycle' = duty
    /\ wr' = NoWrite
    /\ UNCHANGED <<ndebug, regs, timers, primask, limits, ipc, fw_phase, manip_frame,
                   emergency_frame, out_val, beep_frame, c_step, isr_ran, init_done>>
    /\ entry' = Entry

\* Faulty variant of ComputePwmValCall: the result is also stored in _pwm_max.
ComputePwmValCallMutStoresMax ==
    /\ top = "compute"
    /\ out_val = 0 - 1
    /\ LET v == ComputePwmVal(duty_cycle, pwm_max)
       IN  /\ out_val' = v
           /\ pwm_max' = v
           /\ top' = IF ndebug \/ ComputeAssertsHold(v) THEN top ELSE "abort"
    /\ wr' = NoWrite
    /\ UNCHANGED <<ndebug, regs, timers, primask, pwm_dead_time_ticks, ipc, fw_phase,
                   manip_frame, emergency_frame, duty_cycle, beep_frame, c_step,
                   isr_ran, init_done, entry>>

\* The body of motor_pwm_compute_pwm_val, lines 311-328: the value is written
\* to out_val, then the two assertions are evaluated.
ComputePwmValCall ==
    /\ top = "compute"
    /\ out_val = 0 - 1
    /\ LET v == ComputePwmVal(duty_cycle, pwm_max)
       IN  /\ out_val' = v
           /\ top' = IF ndebug \/ ComputeAssertsHold(v) THEN top ELSE "abort"
    /\ wr' = NoWrite
    /\ UNCHANGED <<ndebug, regs, timers, primask, limits, ipc, fw_phase, manip_frame,
                   emergency_frame, duty_cycle, beep_frame, c_step, isr_ran, init_done,
                   entry>>

\* motor_pwm_compute_pwm_val returns, line 328; the caller takes the value.
ComputeReturn ==
    /\ top = "compute"
    /\ out_val # 0 - 1
    /\ top' = "idle"
    /\ duty_cycle' = 0
    /\ out_val' = 0 - 1
    /\ wr' = NoWrite
    /\ UNCHANGED <<ndebug, regs, timers, primask, limits, ipc, fw_phase, manip_frame,
                   emergency_frame, beep_frame, c_step, init_done>>
    /\ entry' = NoEntry
    /\ isr_ran' = FALSE

\* ---------------------------------------------------------------- motor_pwm_set_step_from_isr

\* Faulty variant of COMMUTATION_TABLE: the entries of steps 2 and 3 exchanged.
CommutationTableMutSwapped ==
    << [positive |-> 1, negative |-> 0, floating |-> 2],
       [positive |-> 1, negative |-> 2, floating |-> 0],
       [positive |-> 0, negative |-> 1, floating |-> 2],
       [positive |-> 0, negative |-> 2, floating |-> 1],
       [positive |-> 2, negative |-> 1, floating |-> 0],
       [positive |-> 2, negative |-> 0, floating |-> 1] >>

\* COMMUTATION_TABLE, lines 78-91: positive, negative and floating phase of each
\* step; entry k of the C array is element k + 1 of the sequence.
COMMUTATION_TABLE ==
    << [positive |-> 1, negative |-> 0, floating |-> 2],
       [positive |-> 1, negative |-> 2, floating |-> 0],
       [positive |-> 0, negative |-> 2, floating |-> 1],
       [positive |-> 0, negative |-> 1, floating |-> 2],
       [positive |-> 2, negative |-> 1, floating |-> 0],
       [positive |-> 2, negative |-> 0, floating |-> 1] >>

\* COMMUTATION_TABLE[step] of the C array.
CommutationEntry(step) ==
    COMMUTATION_TABLE[step + 1]

\* The steps of the table.
CommutationSteps ==
    0 .. (Len(COMMUTATION_TABLE) - 1)

\* motor_pwm_set_step_from_isr(step, pwm_val), lines 330-332: the body is empty.
\* It is called from interrupt context, so only while interrupts are unmasked.
\* The step has no effect on the driver: the specification of the whole driver
\* passes step 0, SpecCommutation passes every step.
SetStepFromIsr(step) ==
    /\ top # "abort"
    /\ primask = FALSE
    /\ c_step' = step
    /\ UNCHANGED <<ndebug, regs, timers, primask, limits, top, ipc, fw_phase,
                   manip_frame, emergency_frame, compute_frame, beep_frame, isr_ran, wr,
                   init_done, entry>>

\* ---------------------------------------------------------------- motor_pwm_beep

\* Time is counted in units of one millisecond (HNSEC_PER_MSEC hnsec).  The
\* clock reading at line 344 is at most MaxNow, the duration argument lies in
\* -1 .. MaxDuration milliseconds, and the frequency argument is one of
\* Frequencies.
MaxNow == 1

MaxDuration == 2

ENERGIZING_DURATION_USEC == 9

Frequencies ==
    {250, 500}

Durations ==
    (0 - 1) .. MaxDuration

\* Line 342: half_period_usec = (1000000 / frequency) / 2, int arithmetic.
HalfPeriodUsec(frequency) ==
    (1000000 \div frequency) \div 2

\* motor_timer_udelay(usec) lasts at least usec microseconds: whole time units.
DelayUnits(usec) ==
    usec \div 1000

\* The latest clock reading any run of the loop with a deadline in range can
\* make: one iteration past the latest deadline.
MaxTime ==
    LET worst == CHOOSE f \in Frequencies :
                     \A g \in Frequencies : HalfPeriodUsec(g) <= HalfPeriodUsec(f)
    IN  MaxNow + MaxDuration + 2 * (DelayUnits(ENERGIZING_DURATION_USEC) + 1)
            + 2 * (DelayUnits(HalfPeriodUsec(worst)) + 1)

\* Line 344: end_time = motor_timer_hnsec() + duration_msec * HNSEC_PER_MSEC,
\* a uint64_t.  A sum below zero stands for the wrapped value 2^64 + sum.
EndTimeOf(t, duration) ==
    t + duration

\* Line 346: end_time > motor_timer_hnsec(), compared as uint64_t: a wrapped
\* deadline lies above every clock reading in range.
EndTimeAfter(t) ==
    IF end_time < 0 THEN TRUE ELSE end_time > t

\* A caller invokes motor_pwm_beep(frequency, duration_msec).  The arguments are
\* first read at lines 342 and 344; the model draws their values there.
CallBeep ==
    /\ top = "idle"
    /\ top' = "beep"
    /\ bpc' = "b_fw1"
    /\ wr' = NoWrite
    /\ UNCHANGED <<ndebug, regs, timers, primask, limits, ipc, fw_phase, manip_frame,
                   emergency_frame, compute_frame, half_period, end_time, now,
                   duration_msec, c_step, isr_ran, init_done>>
    /\ entry' = [NoEntry EXCEPT !.primask = primask]

\* motor_pwm_beep calls motor_pwm_set_freewheeling (lines 340 and 357).
BeepFreewheeling(from, to) ==
    /\ top = "beep"
    /\ bpc = from
    /\ bpc' = to
    /\ fw_phase' = 0
    /\ wr' = NoWrite
    /\ UNCHANGED <<ndebug, regs, timers, primask, limits, top, ipc, manip_frame,
                   emergency_frame, compute_frame, half_period, end_time, now,
                   duration_msec, c_step, isr_ran, init_done, entry>>

\* Line 340: motor_pwm_set_freewheeling().
BeepFreewheelingFirst ==
    BeepFreewheeling("b_fw1", "b_in_fw1")

\* motor_pwm_beep calls motor_pwm_manip(p, c).
BeepManip(from, to, p, c) ==
    /\ top = "beep"
    /\ bpc = from
    /\ mpc = "none"
    /\ bpc' = to
    /\ ManipEnter(p, c)
    /\ wr' = NoWrite
    /\ UNCHANGED <<ndebug, regs, timers, primask, limits, top, ipc, fw_phase,
                   emergency_frame, compute_frame, half_period, end_time, now,
                   duration_msec, c_step, isr_ran, init_done, entry>>

\* Line 341: motor_pwm_manip(1, MOTOR_PWM_MANIP_LOW).
BeepManipLow ==
    BeepManip("b_low", "b_low_ret", 1, "LOW")

\* Line 342: motor_pwm_manip has returned; half_period_usec is computed from the
\* frequency argument.
BeepHalfPeriod ==
    /\ top = "beep"
    /\ bpc = "b_low_ret"
    /\ mpc = "m_done"
    /\ ManipLeave
    /\ \E frequency \in Frequencies : half_period' = DelayUnits(HalfPeriodUsec(frequency))
    /\ bpc' = "b_end"
    /\ wr' = NoWrite
    /\ UNCHANGED <<ndebug, regs, timers, primask, limits, top, ipc, fw_phase,
                   emergency_frame, compute_frame, end_time, now, duration_msec, c_step,
                   isr_ran, init_done, entry>>

\* Line 344: the clock is read and end_time computed from the duration argument.
BeepEndTime ==
    /\ top = "beep"
    /\ bpc = "b_end"
    /\ \E t \in 0 .. MaxNow, d \in Durations :
         /\ now' = t
         /\ duration_msec' = d
         /\ end_time' = EndTimeOf(t, d)
    /\ bpc' = "b_test"
    /\ wr' = NoWrite
    /\ UNCHANGED <<ndebug, regs, timers, primask, limits, top, ipc, fw_phase,
                   manip_frame, emergency_frame, compute_frame, half_period, c_step,
                   isr_ran, init_done, entry>>

\* Line 346: while (end_time > motor_timer_hnsec()).
BeepLoopTest ==
    /\ top = "beep"
    /\ bpc = "b_test"
    /\ bpc' = IF EndTimeAfter(now) THEN "b_0h" ELSE "b_fw2"
    /\ wr' = NoWrite
    /\ UNCHANGED <<ndebug, regs, timers, primask, limits, top, ipc, fw_phase,
                   manip_frame, emergency_frame, compute_frame, half_period, end_time,
                   now, duration_msec, c_step, isr_ran, init_done, entry>>

\* Line 347: motor_pwm_manip(0, MOTOR_PWM_MANIP_HIGH).
BeepHigh0 ==
    BeepManip("b_0h", "b_0h_ret", 0, "HIGH")

\* motor_pwm_manip has returned; motor_timer_udelay(usec) busy-waits: the clock
\* advances by the delay, and by up to one unit more.
BeepDelay(from, to, units) ==
    /\ top = "beep"
    /\ bpc = from
    /\ mpc = "m_done"
    /\ ManipLeave
    /\ \E jitter \in 0 .. 1 :
         /\ now + units + jitter <= MaxTime
         /\ now' = now + units + jitter
    /\ bpc' = to
    /\ wr' = NoWrite
    /\ UNCHANGED <<ndebug, regs, timers, primask, limits, top, ipc, fw_phase,
                   emergency_frame, compute_frame, half_period, end_time, duration_msec,
                   c_step, isr_ran, init_done, entry>>

\* Line 348: motor_timer_udelay(ENERGIZING_DURATION_USEC).
BeepEnergize0 ==
    BeepDelay("b_0h_ret", "b_0f", DelayUnits(ENERGIZING_DURATION_USEC))

\* Line 349: motor_pwm_manip(0, MOTOR_PWM_MANIP_FLOATING).
BeepFloat0 ==
    BeepManip("b_0f", "b_0f_ret", 0, "FLOATING")

\* Line 350: motor_timer_udelay(half_period_usec).
BeepWait0 ==
    BeepDelay("b_0f_ret", "b_2h", half_period)

\* Line 351: motor_pwm_manip(2, MOTOR_PWM_MANIP_HIGH).
BeepHigh2 ==
    BeepManip("b_2h", "b_2h_ret", 2, "HIGH")

\* Line 352: motor_timer_udelay(ENERGIZING_DURATION_USEC).
BeepEnergize2 ==
    BeepDelay("b_2h_ret", "b_2f", DelayUnits(ENERGIZING_DURATION_USEC))

\* Line 353: motor_pwm_manip(2, MOTOR_PWM_MANIP_FLOATING).
BeepFloat2 ==
    BeepManip("b_2f", "b_2f_ret", 2, "FLOATING")

\* Line 354: motor_timer_udelay(half_period_usec); back to the loop test.
BeepWait2 ==
    BeepDelay("b_2f_ret", "b_test", half_period)

\* Line 357: motor_pwm_set_freewheeling().
BeepFreewheelingLast ==
    BeepFreewheeling("b_fw2", "b_in_fw2")

\* Line 358: motor_pwm_beep returns.
BeepReturn ==
    /\ top = "beep"
    /\ bpc = "b_done"
    /\ top' = "idle"
    /\ bpc' = "none"
    /\ half_period' = 0
    /\ end_time' = 0
    /\ now' = 0
    /\ duration_msec' = 0
    /\ wr' = NoWrite
    /\ UNCHANGED <<ndebug, regs, timers, primask, limits, ipc, fw_phase, manip_frame,
                   emergency_frame, compute_frame, c_step, init_done>>
    /\ entry' = NoEntry
    /\ isr_ran' = FALSE

\* ---------------------------------------------------------------- the program

Next ==
    \/ \E p \in PhaseArgs, c \in Commands : CallManip(p, c)
    \/ ManipBadPhase
    \/ ManipBranch
    \/ ManipCompute
    \/ ManipDisable
    \/ PhaseSetPolLow
    \/ PhaseSetPolHigh
    \/ PhaseSetCcrHigh
    \/ PhaseSetCcrLow
    \/ ManipEnable
    \/ ManipElseDisable
    \/ ManipElsePolLow
    \/ ManipElsePolHigh
    \/ ManipElseEnable
    \/ ManipElseCcrHigh
    \/ ManipElseCcrLow
    \/ ManipReturn
    \/ CallFreewheeling
    \/ FreewheelingLoop
    \/ FreewheelingNext
    \/ FreewheelingReturn
    \/ CallEmergency
    \/ EmergencySave
    \/ EmergencyPolLow
    \/ EmergencyPolHigh
    \/ EmergencyCcrHigh
    \/ EmergencyCcrLow
    \/ EmergencyRestore
    \/ EmergencyReturn
    \/ IsrEmergency
    \/ CallerIrqDisable
    \/ CallerIrqEnable
    \/ CallInit
    \/ InitSysDisable
    \/ InitRccReset
    \/ InitSysEnable
    \/ InitArr
    \/ InitCr1
    \/ InitCcmr
    \/ InitCcer
    \/ InitAdcTrigger
    \/ InitEgr
    \/ StartAssertStopped
    \/ StartMaster
    \/ StartSlave
    \/ StartCounters
    \/ StartUnsyncMaster
    \/ StartUnsyncSlave
    \/ StartAssertRunning
    \/ InitPwmMax
    \/ InitDeadTime
    \/ InitFreewheeling
    \/ InitReturn
    \/ \E duty \in DutySamples : CallCompute(duty)
    \/ ComputePwmValCall
    \/ ComputeReturn
    \/ SetStepFromIsr(0)
    \/ CallBeep
    \/ BeepFreewheelingFirst
    \/ BeepManipLow
    \/ BeepHalfPeriod
    \/ BeepEndTime
    \/ BeepLoopTest
    \/ BeepHigh0
    \/ BeepEnergize0
    \/ BeepFloat0
    \/ BeepWait0
    \/ BeepHigh2
    \/ BeepEnergize2
    \/ BeepFloat2
    \/ BeepWait2
    \/ BeepFreewheelingLast
    \/ BeepReturn

Spec ==
    Init /\ [][Next]_vars

\* ---------------------------------------------------------------- specifications of single functions

\* The timers as motor_pwm_init leaves them: configured, counting, unlinked.
TimRunning ==
    [cen |-> TRUE, arr |-> PWM_TOP, center |-> TRUE, ocpe |-> TRUE, cce |-> TRUE,
     ug |-> TRUE]

\* The registers of one phase in the shape a completed manip(phase, c) leaves,
\* after motor_pwm_init: <<pol_high, pol_low, ccr_high, ccr_low>>.
ShapeOf(c) ==
    CASE c = "FLOATING" -> <<FALSE, FALSE, 0, 0>>
      [] c = "LOW" -> <<FALSE, FALSE, 0, PWM_TOP>>
      [] c = "HIGH" -> <<FALSE, TRUE,
                         DutyCycleHigh(PwmMaxValue, FALSE, DeadTimeValue),
                         DutyCycleLow(PwmMaxValue, FALSE, DeadTimeValue)>>
      [] c = "HALF" -> <<FALSE, TRUE,
                         DutyCycleHigh(PWM_HALF_TOP, FALSE, DeadTimeValue),
                         DutyCycleLow(PWM_HALF_TOP, FALSE, DeadTimeValue)>>

\* No operation in progress: every frame at rest.
FramesAtRest ==
    /\ ipc = "none"
    /\ fw_phase = 0 - 1
    /\ epc = "none"
    /\ e_phase = 0
    /\ irqstate = FALSE
    /\ wr = NoWrite
    /\ bpc = "none"
    /\ half_period = 0
    /\ end_time = 0
    /\ now = 0
    /\ duration_msec = 0
    /\ isr_ran = FALSE

\* The timers and limits after motor_pwm_init has returned.
AfterInit ==
    /\ tim = [t \in Timers |-> TimRunning]
    /\ tim3_mms = FALSE
    /\ tim4_smcr = FALSE
    /\ tim4_ccr4 = (PWM_HALF_TOP - TicksOf(MOTOR_ADC_SYNC_ADVANCE_NANOSEC)) % U16
    /\ pwm_max = PwmMaxValue
    /\ pwm_dead_time_ticks = DeadTimeValue
    /\ init_done = TRUE

\* The timers and limits at program start.
BeforeInit ==
    /\ tim = [t \in Timers |-> TimReset]
    /\ tim3_mms = FALSE
    /\ tim4_smcr = FALSE
    /\ tim4_ccr4 = 0
    /\ pwm_max = 0
    /\ pwm_dead_time_ticks = 0
    /\ init_done = FALSE

\* motor_pwm_compute_pwm_val on every duty code (uint16_t), before and after
\* motor_pwm_init, all phases floating.
InitCompute ==
    /\ ndebug \in BOOLEAN
    /\ duty_cycle \in 0 .. MOTOR_PWM_DUTY_CYCLE_MAX
    /\ out_val = 0 - 1
    /\ AfterInit \/ BeforeInit
    /\ ccr_high = AllZero
    /\ ccr_low = AllZero
    /\ pol_high = AllClear
    /\ pol_low = AllClear
    /\ primask = FALSE
    /\ top = "compute"
    /\ FramesAtRest
    /\ c_step = 0
    /\ mpc = "none"
    /\ m_phase = 0
    /\ m_cmd = "FLOATING"
    /\ pwm_val = 0
    /\ inverted = FALSE
    /\ old = NoOld
    /\ entry = NoEntry

NextCompute ==
    ComputePwmValCall

SpecCompute ==
    InitCompute /\ [][NextCompute]_vars

\* phase_set_i entered, after motor_pwm_init and with interrupts masked as its
\* comment requires, on every phase, with every normalized duty in
\* [PWM_HALF_TOP, _pwm_max], both values of inverted, and the phase in any of the
\* four shapes manip leaves; the other phases floating.
InitSetPhase ==
    /\ ndebug \in BOOLEAN
    /\ AfterInit
    /\ m_phase \in Phases
    /\ pwm_val \in PWM_HALF_TOP .. pwm_max
    /\ inverted \in BOOLEAN
    /\ \E c \in Commands :
         /\ pol_high = [p \in Phases |-> IF p = m_phase THEN ShapeOf(c)[1] ELSE FALSE]
         /\ pol_low = [p \in Phases |-> IF p = m_phase THEN ShapeOf(c)[2] ELSE FALSE]
         /\ ccr_high = [p \in Phases |-> IF p = m_phase THEN ShapeOf(c)[3] ELSE 0]
         /\ ccr_low = [p \in Phases |-> IF p = m_phase THEN ShapeOf(c)[4] ELSE 0]
    /\ old = PhaseRegs(m_phase)
    /\ primask = TRUE
    /\ entry = [Entry EXCEPT !.primask = FALSE]
    /\ top = "manip"
    /\ mpc = "ps_pol_low"
    /\ m_cmd = "HIGH"
    /\ FramesAtRest
    /\ c_step = 0
    /\ duty_cycle = 0
    /\ out_val = 0 - 1

NextSetPhase ==
    \/ PhaseSetPolLow
    \/ PhaseSetPolHigh
    \/ PhaseSetCcrHigh
    \/ PhaseSetCcrLow

SpecSetPhase ==
    InitSetPhase /\ [][NextSetPhase]_vars

\* motor_pwm_set_step_from_isr after motor_pwm_init, all phases floating, on
\* every step of the table and every normalized duty in [PWM_HALF_TOP, _pwm_max].
InitCommutation ==
    /\ ndebug \in BOOLEAN
    /\ AfterInit
    /\ c_step \in CommutationSteps
    /\ pwm_val \in PWM_HALF_TOP .. pwm_max
    /\ ccr_high = AllZero
    /\ ccr_low = AllZero
    /\ pol_high = AllClear
    /\ pol_low = AllClear
    /\ primask = FALSE
    /\ top = "idle"
    /\ FramesAtRest
    /\ mpc = "none"
    /\ m_phase = 0
    /\ m_cmd = "FLOATING"
    /\ inverted = FALSE
    /\ old = NoOld
    /\ entry = NoEntry
    /\ duty_cycle = 0
    /\ out_val = 0 - 1

NextCommutation ==
    \E step \in CommutationSteps : SetStepFromIsr(step)

SpecCommutation ==
    InitCommutation /\ [][NextCommutation]_vars

\* ---------------------------------------------------------------- sanity

TypeOK ==
    /\ ndebug \in BOOLEAN
    /\ ccr_high \in [Phases -> 0 .. (U16 - 1)]
    /\ ccr_low \in [Phases -> 0 .. (U16 - 1)]
    /\ pol_high \in [Phases -> BOOLEAN]
    /\ pol_low \in [Phases -> BOOLEAN]
    /\ primask \in BOOLEAN
    /\ pwm_max \in 0 .. (U16 - 1)
    /\ pwm_dead_time_ticks \in 0 .. (U16 - 1)
    /\ top \in {"idle", "init", "manip", "freewheeling", "emergency", "compute", "beep",
              "abort"}
    /\ fw_phase \in (0 - 1) .. 3
    /\ m_phase \in PhaseArgs
    /\ m_cmd \in Commands
    /\ e_phase \in 0 .. 3
    /\ out_val \in (0 - 1) .. (U16 - 1)
    /\ bpc \in {"none", "b_fw1", "b_in_fw1", "b_low", "b_low_ret", "b_end", "b_test",
               "b_0h", "b_0h_ret", "b_0f", "b_0f_ret", "b_2h", "b_2h_ret", "b_2f",
               "b_2f_ret", "b_fw2", "b_in_fw2", "b_done"}
    /\ half_period \in 0 .. MaxTime
    /\ now \in 0 .. MaxTime
    /\ end_time \in (0 - 1) .. (MaxNow + MaxDuration)
    /\ duration_msec \in Durations
    /\ c_step \in CommutationSteps
    /\ isr_ran \in BOOLEAN

\* motor_pwm_init returns in the state AfterInit describes (with init_done about
\* to be set), all phases floating.
InitReachesAfterInit ==
    (top = "init" /\ ipc = "i_done") =>
        /\ tim = [t \in Timers |-> TimRunning]
        /\ tim4_ccr4 = (PWM_HALF_TOP - TicksOf(MOTOR_ADC_SYNC_ADVANCE_NANOSEC)) % U16
        /\ ~tim3_mms /\ ~tim4_smcr
        /\ pwm_max = PwmMaxValue
        /\ pwm_dead_time_ticks = DeadTimeValue

\* After motor_pwm_init, a completed manip(phase, c) leaves the phase in ShapeOf(c).
ManipReachesShape ==
    (init_done /\ mpc = "m_done" /\ m_phase \in Phases) =>
        PhaseRegs(m_phase) = ShapeOf(m_cmd)

\* ---------------------------------------------------------------- claims

AllFloating ==
    /\ ccr_high = AllZero
    /\ ccr_low = AllZero
    /\ pol_high = AllClear
    /\ pol_low = AllClear

\* The phase was in complementary drive (manip HIGH or HALF after init) when
\* motor_pwm_manip was entered.
OldWasComplementary ==
    old[2] /\ old[3] >= PWM_HALF_TOP /\ old[4] >= PWM_HALF_TOP

\* C1: whenever motor_pwm_emergency returns, whatever state the three phases
\* were in when it was called, all six compare values are zero and all six
\* polarity-inversion flags are cleared.
C1_EmergencyAllZero ==
    (top = "emergency" /\ epc = "e_done") => AllFloating

\* C1 witness: motor_pwm_emergency has returned after being called mid-drive:
\* phase 0 driven high, phase 1 driven low, phase 2 at half duty.
C1_Witness ==
    /\ top = "emergency"
    /\ epc = "e_done"
    /\ AllFloating
    /\ <<entry.pol_high[0], entry.pol_low[0], entry.ccr_high[0], entry.ccr_low[0]>>
           = ShapeOf("HIGH")
    /\ <<entry.pol_high[1], entry.pol_low[1], entry.ccr_high[1], entry.ccr_low[1]>>
           = ShapeOf("LOW")
    /\ <<entry.pol_high[2], entry.pol_low[2], entry.ccr_high[2], entry.ccr_low[2]>>
           = ShapeOf("HALF")

\* C2: when phase_set_i(phase, d, inverted) returns, for every phase, every
\* normalized duty d in [PWM_HALF_TOP, _pwm_max] and both values of inverted,
\* exactly one of the phase's high and low compare values differs from d, by
\* exactly _pwm_dead_time_ticks, and the other equals d; side and sign follow
\* the rule table: (not inverted, d > half) high = d - dt; (not inverted,
\* d <= half) low = d + dt; (inverted, d > half) low = d - dt; (inverted,
\* d <= half) high = d + dt.
C2_DeadTimeRuleTable ==
    (mpc = "m_enable" /\ pwm_val >= PWM_HALF_TOP /\ pwm_val <= pwm_max) =>
        LET d == pwm_val
            dt == pwm_dead_time_ticks
            h == ccr_high[m_phase]
            l == ccr_low[m_phase]
        IN  /\ (h # d /\ l = d) \/ (h = d /\ l # d)
            /\ (~inverted /\ d > PWM_HALF_TOP) => (h = d - dt /\ l = d)
            /\ (~inverted /\ d <= PWM_HALF_TOP) => (l = d + dt /\ h = d)
            /\ (inverted /\ d > PWM_HALF_TOP) => (l = d - dt /\ h = d)
            /\ (inverted /\ d <= PWM_HALF_TOP) => (h = d + dt /\ l = d)

\* C2 witness: phase_set_i has returned for an inverted phase at d = half_top,
\* with the high side moved up by the dead time.
C2_Witness ==
    /\ mpc = "m_enable"
    /\ inverted
    /\ m_phase = 2
    /\ pwm_val = PWM_HALF_TOP
    /\ pwm_dead_time_ticks > 0
    /\ ccr_high[2] = PWM_HALF_TOP + pwm_dead_time_ticks
    /\ ccr_low[2] = PWM_HALF_TOP

\* C3: after motor_pwm_init has run, motor_pwm_compute_pwm_val leaves, for every
\* duty code 0 .. 2^MOTOR_PWM_DUTY_CYCLE_RESOLUTION - 1, a value in
\* [PWM_HALF_TOP, _pwm_max], which is also never above PWM_TOP.
C3_NormalizedInRange ==
    (init_done /\ out_val # 0 - 1) =>
        /\ out_val >= PWM_HALF_TOP
        /\ out_val <= pwm_max
        /\ out_val <= PWM_TOP

\* C3 witness: after init, the largest duty code has been normalized and clamped
\* to _pwm_max, below PWM_TOP.
C3_Witness ==
    /\ init_done
    /\ duty_cycle = (2 ^ MOTOR_PWM_DUTY_CYCLE_RESOLUTION) - 1
    /\ out_val = pwm_max
    /\ pwm_max < PWM_TOP

\* C4: in motor_pwm_manip (all four modes, hence motor_pwm_set_freewheeling and
\* phase_set_i) and motor_pwm_emergency, no write to a phase's compare register
\* or polarity flag happens while interrupts are enabled.
C4_WritesOnlyMasked ==
    (wr.op \in {"manip", "emergency"} /\ wr.reg \in {"pol", "ccr"}) => wr.masked

\* C5: while motor_pwm_manip is changing a phase, at no point where interrupts
\* are enabled does the phase hold its new polarity flags together with the
\* compare values of its previous mode.
C5_NoHalfAppliedState ==
    ~ /\ primask = FALSE
      /\ mpc \notin {"none", "m_check", "m_done"}
      /\ m_phase \in Phases
      /\ OldWasComplementary
      /\ <<pol_high[m_phase], pol_low[m_phase]>> # <<old[1], old[2]>>
      /\ <<ccr_high[m_phase], ccr_low[m_phase]>> = <<old[3], old[4]>>

\* C6: whenever manip(phase, FLOATING) returns, for every phase in 0..2 and any
\* prior state of the phase, the phase's high compare is 0, its low compare is 0
\* and both of its polarity-inversion flags are cleared.
C6_ManipFloating ==
    (mpc = "m_done" /\ m_phase \in Phases /\ m_cmd = "FLOATING") =>
        PhaseRegs(m_phase) = <<FALSE, FALSE, 0, 0>>

\* C6 witness: manip(1, FLOATING) has returned on a phase that was in
\* complementary drive when it was called.
C6_Witness ==
    /\ top = "manip"
    /\ mpc = "m_done"
    /\ m_phase = 1
    /\ m_cmd = "FLOATING"
    /\ OldWasComplementary
    /\ PhaseRegs(1) = <<FALSE, FALSE, 0, 0>>

\* C7: whenever manip(phase, DRIVE_LOW) returns, for every phase in 0..2 and any
\* prior state of the phase, the phase's high compare is 0, its low compare is
\* top (1023) and both of its polarity-inversion flags are cleared.
C7_ManipDriveLow ==
    (mpc = "m_done" /\ m_phase \in Phases /\ m_cmd = "LOW") =>
        PhaseRegs(m_phase) = <<FALSE, FALSE, 0, 1023>>

\* C7 witness: manip(2, LOW) has returned on a phase that was in complementary
\* drive when it was called.
C7_Witness ==
    /\ top = "manip"
    /\ mpc = "m_done"
    /\ m_phase = 2
    /\ m_cmd = "LOW"
    /\ OldWasComplementary
    /\ PhaseRegs(2) = <<FALSE, FALSE, 0, PWM_TOP>>

C9_FreewheelingAllFloating ==
    /\ fw_phase = 3 => AllFloating
    /\ (top = "init" /\ ipc = "i_done") => AllFloating

\* C9 witness: motor_pwm_set_freewheeling has run to its end after being called
\* with phase 0 at half duty, phase 1 driven high and phase 2 driven low.
C9_Witness ==
    /\ top = "freewheeling"
    /\ fw_phase = 3
    /\ AllFloating
    /\ entry.pol_low[0] /\ entry.ccr_high[0] = PWM_HALF_TOP
    /\ entry.pol_low[1] /\ entry.ccr_low[1] = pwm_max /\ pwm_max > PWM_HALF_TOP
    /\ ~entry.pol_low[2] /\ entry.ccr_low[2] = PWM_TOP

\* C10: with 300 ns minimum pulse, 400 ns dead time, 72 MHz and 10 bits, once
\* motor_pwm_init has passed its limits section _pwm_dead_time_ticks = 28 and
\* _pwm_max = 1023 - (21 \div 2 + 1) = 1012, the minimum-pulse ticks being 21,
\* and neither bound check (ticks < 0.05 * top) stops the initialization.
C10_InitLimits ==
    /\ TicksOf(300) = 21
    /\ (top = "init" /\ ipc \in {"i_dead_time", "i_freewheeling", "i_in_freewheeling", "i_done"})
           => pwm_max = 1012 /\ pwm_max = 1023 - ((21 \div 2) + 1)
    /\ (top = "init" /\ ipc \in {"i_freewheeling", "i_in_freewheeling", "i_done"})
           => pwm_dead_time_ticks = 28
    /\ init_done => (pwm_max = 1012 /\ pwm_dead_time_ticks = 28)
    /\ ~(top = "abort" /\ ipc \in {"i_pwm_max", "i_dead_time"})

\* C10 witness: motor_pwm_init is about to return with both limits derived.
C10_Witness ==
    /\ top = "init"
    /\ ipc = "i_done"
    /\ pwm_max = 1012
    /\ pwm_dead_time_ticks = 28
    /\ ~init_done

C12_AsStated ==
    (mpc # "none" /\ mpc # "m_check" /\ m_phase \notin Phases) => top = "abort"

\* C12, amended: the step motor_pwm_manip takes on a phase outside 0..2 changes
\* no compare value, no polarity flag and not the interrupt mask; it aborts in a
\* build with assert() and returns to the caller in a build with NDEBUG.
C12_BadPhaseNoEffect ==
    [][(/\ mpc = "m_check"
        /\ m_phase \notin Phases
        /\ top # "abort"
        /\ <<mpc, top>>' # <<mpc, top>>)
       => (/\ UNCHANGED <<regs, primask>>
           /\ IF ndebug
              THEN mpc' = "m_done" /\ top' = top
              ELSE mpc' = mpc /\ top' = "abort")]_vars

\* C12 witness: in a build with assert(), manip(3, ...) entered with interrupts
\* masked and phase 0 driven low has aborted; registers and mask are as on entry.
C12_Witness ==
    /\ ~ndebug
    /\ top = "abort"
    /\ mpc = "m_check"
    /\ m_phase = 3
    /\ primask /\ entry.primask
    /\ ccr_low[0] = PWM_TOP
    /\ <<ccr_high, ccr_low, pol_high, pol_low>> =
           <<entry.ccr_high, entry.ccr_low, entry.pol_high, entry.pol_low>>

\* Positions of motor_pwm_init after start_timers has removed the linkage.
AfterStartTimers ==
    {"s_assert_running", "i_pwm_max", "i_dead_time", "i_freewheeling",
     "i_in_freewheeling", "i_done"}

\* C13: the two counters are brought up in lock step, on the first and on every
\* later run of motor_pwm_init: when start_timers begins both are fully
\* configured and not counting; in no reachable state is one counter running and
\* the other not; neither assert_always of start_timers fails; once start_timers
\* has removed the master/slave linkage both are running and unlinked, and they
\* stay so until the next motor_pwm_init.
C13_LockStep ==
    /\ tim[3].cen = tim[4].cen
    /\ (top = "init" /\ ipc = "s_assert_stopped") =>
          \A t \in Timers : tim[t] = [TimRunning EXCEPT !.cen = FALSE]
    /\ ipc \in {"s_assert_stopped", "s_assert_running"} => top # "abort"
    /\ (ipc \in AfterStartTimers \/ (init_done /\ ipc = "none")) =>
          /\ \A t \in Timers : tim[t] = TimRunning
          /\ ~tim3_mms
          /\ ~tim4_smcr

\* C13 witness: on a re-run of motor_pwm_init the master has just been enabled:
\* both counters run and the linkage is still in place.
C13_Witness ==
    /\ init_done
    /\ top = "init"
    /\ ipc = "s_unsync_master"
    /\ tim[3].cen /\ tim[4].cen
    /\ tim3_mms /\ tim4_smcr

\* C14: _pwm_dead_time_ticks and _pwm_max are written only by motor_pwm_init:
\* every step that changes either is a step of motor_pwm_init at its two
\* assignments, so compute_pwm_val, phase_set_i, manip, set_freewheeling,
\* emergency, set_step_from_isr and beep leave both unchanged.
C14_LimitsWrittenOnlyByInit ==
    [][(limits' # limits) =>
          (top = "init" /\ ipc \in {"i_pwm_max", "i_dead_time"})]_vars

\* C14 witness: after init, motor_pwm_beep has energized phase 0 through manip
\* and phase_set_i, an interrupt has run motor_pwm_emergency, and both limits
\* hold the values init gave them.
C14_Witness ==
    /\ init_done
    /\ top = "beep"
    /\ bpc = "b_2h_ret"
    /\ mpc = "m_done"
    /\ isr_ran
    /\ pwm_max = PwmMaxValue
    /\ pwm_dead_time_ticks = DeadTimeValue

\* motor_pwm_manip, called by an outside caller with a valid phase, stands at its
\* return after an interrupt ran motor_pwm_emergency inside it.
PreemptedManipReturns ==
    isr_ran /\ top = "manip" /\ mpc = "m_done" /\ m_phase \in Phases

\* motor_pwm_set_freewheeling, called by an outside caller, stands at its return
\* after an interrupt ran motor_pwm_emergency inside it.
PreemptedFreewheelingReturns ==
    isr_ran /\ top = "freewheeling" /\ fw_phase = 3

Complementary(p) ==
    /\ pol_high[p] # pol_low[p]
    /\ ccr_high[p] \in 0 .. PWM_TOP
    /\ ccr_low[p] \in 0 .. PWM_TOP
    /\ IF pol_low[p]
       THEN ccr_low[p] = ccr_high[p] + pwm_dead_time_ticks
       ELSE ccr_high[p] = ccr_low[p] + pwm_dead_time_ticks

\* C16: after motor_pwm_init, whenever no operation is in progress, every phase
\* is floating (both compares 0, both polarity flags clear), driven low (high
\* compare 0, low compare PWM_TOP, both flags clear) or in complementary drive.
C16_PhaseShapes ==
    (init_done /\ top = "idle") =>
        \A p \in Phases :
            \/ PhaseRegs(p) = <<FALSE, FALSE, 0, 0>>
            \/ PhaseRegs(p) = <<FALSE, FALSE, 0, PWM_TOP>>
            \/ Complementary(p)

\* C16 witness: after init, no operation in progress, phase 0 in complementary
\* drive with the low side above the high side by the dead time, phase 1 driven
\* low, phase 2 floating.
C16_Witness ==
    /\ init_done
    /\ top = "idle"
    /\ Complementary(0)
    /\ ccr_low[0] = pwm_max
    /\ ccr_high[0] = pwm_max - pwm_dead_time_ticks
    /\ PhaseRegs(1) = <<FALSE, FALSE, 0, PWM_TOP>>
    /\ PhaseRegs(2) = <<FALSE, FALSE, 0, 0>>

\* C17: phase_set_i and motor_pwm_manip on phase p change the compare values
\* and polarity flags of phase p only; they, motor_pwm_emergency and
\* motor_pwm_set_freewheeling leave the ADC trigger compare, the channel-enable
\* bits and the running state of both counters unchanged; after init the ADC
\* trigger compare holds PWM_HALF_TOP minus the trigger advance.
C17_Frame ==
    [][/\ (mpc # "none" /\ mpc' # mpc /\ m_phase \in Phases) =>
           \A q \in Phases \ {m_phase} : PhaseRegs(q)' = PhaseRegs(q)
       /\ (mpc' # mpc \/ epc' # epc \/ fw_phase' # fw_phase \/ top # "init") =>
           UNCHANGED timers
       /\ (init_done /\ ipc = "none") =>
           /\ tim4_ccr4 = PWM_HALF_TOP - TicksOf(MOTOR_ADC_SYNC_ADVANCE_NANOSEC)
           /\ \A t \in Timers : tim[t].cce /\ tim[t].cen]_vars

\* C17 witness: after init, manip(1, HIGH) entered with phase 1 floating, phase 0
\* driven low and phase 2 at half stands at its return without having been
\* preempted: phase 1 is driven, phases 0 and 2 are as on entry.
C17_Witness ==
    /\ init_done
    /\ ~isr_ran
    /\ top = "manip"
    /\ mpc = "m_done"
    /\ m_phase = 1
    /\ m_cmd = "HIGH"
    /\ entry.ccr_low[1] = 0
    /\ PhaseRegs(1) = ShapeOf("HIGH")
    /\ PhaseRegs(0) = ShapeOf("LOW")
    /\ PhaseRegs(2) = ShapeOf("HALF")
    /\ entry.ccr_low[0] = PWM_TOP
    /\ entry.ccr_low[2] = ccr_low[2]

\* C18 as stated: every public operation that masks interrupts
\* (motor_pwm_emergency, motor_pwm_manip in all four modes,
\* motor_pwm_set_freewheeling, motor_pwm_init) returns with the interrupt mask
\* in the state it had on entry.
C18_AsStated ==
    (\/ top = "emergency" /\ epc = "e_done"
     \/ top = "manip" /\ mpc = "m_done"
     \/ top = "freewheeling" /\ fw_phase = 3
     \/ top = "init" /\ ipc = "i_done")
    => primask = entry.primask

\* C18, amended: motor_pwm_emergency returns with the interrupt mask in the
\* state it had on entry; motor_pwm_manip with a valid phase,
\* motor_pwm_set_freewheeling and motor_pwm_init return with interrupts
\* unmasked, whatever the mask was on entry.
C18_MaskOnReturn ==
    /\ (top = "emergency" /\ epc = "e_done") => primask = entry.primask
    /\ (top = "manip" /\ mpc = "m_done" /\ m_phase \in Phases) => ~primask
    /\ (top = "freewheeling" /\ fw_phase = 3) => ~primask
    /\ (top = "init" /\ ipc = "i_done") => ~primask

\* C18 witness: motor_pwm_emergency, entered with interrupts masked and phase 0
\* driven low, stands at its return with all phases floating and interrupts
\* still masked.
C18_Witness ==
    /\ top = "emergency"
    /\ epc = "e_done"
    /\ entry.primask
    /\ primask
    /\ entry.ccr_low[0] = PWM_TOP
    /\ AllFloating

\* Positions of motor_pwm_beep inside the body of its loop, lines 347-354.
BeepLoopBody ==
    {"b_0h", "b_0h_ret", "b_0f", "b_0f_ret", "b_2h", "b_2h_ret", "b_2f", "b_2f_ret"}

\* A phase driven high: the complementary drive manip(p, HIGH) programs.
DrivenHigh(p) ==
    pol_low[p] /\ ccr_low[p] > PWM_HALF_TOP

\* C19: motor_pwm_beep stops its loop once the deadline (clock reading at line
\* 344 plus the duration) is reached and, for a zero or negative duration,
\* never runs the loop body; it returns with all three phases floating; while
\* the loop runs, phases 0 and 2 are never driven high at the same time.
C19_BeepDeadline ==
    /\ (top = "beep" /\ duration_msec <= 0) => bpc \notin BeepLoopBody
    /\ (top = "beep" /\ bpc = "b_0h") => now < end_time
    /\ (top = "beep" /\ bpc = "b_done") => AllFloating
    /\ (top = "beep" /\ bpc \in BeepLoopBody) => ~(DrivenHigh(0) /\ DrivenHigh(2))

\* C20: the commutation table has six entries; the positive, negative and
\* floating phase of every entry are a permutation of {0, 1, 2}; the entries are
\* pairwise distinct; and from each step to the next (step 5 is followed by step
\* 0) exactly one of the positive and negative assignments is kept, while the
\* phase that was floating becomes driven.
C20_CommutationTable ==
    LET cur == CommutationEntry(c_step)
        nxt == CommutationEntry((c_step + 1) % 6)
    IN  /\ Len(COMMUTATION_TABLE) = 6
        /\ c_step \in CommutationSteps
        /\ {cur.positive, cur.negative, cur.floating} = Phases
        /\ \A other \in CommutationSteps \ {c_step} : CommutationEntry(other) # cur
        /\ (nxt.positive = cur.positive) # (nxt.negative = cur.negative)
        /\ cur.floating \in {nxt.positive, nxt.negative}

\* C20 witness: at step 5 (positive 2, negative 0, floating 1) the next step is
\* step 0: the negative phase 0 is kept and the floating phase 1 becomes the
\* positive one.
C20_Witness ==
    /\ c_step = 5
    /\ CommutationEntry(c_step) = [positive |-> 2, negative |-> 0, floating |-> 1]
    /\ CommutationEntry((c_step + 1) % 6).negative = 0
    /\ CommutationEntry((c_step + 1) % 6).positive = 1
    /\ pwm_val = pwm_max

====
